---- MODULE Spec2Model ----
(***************************************************************************)
(* Two-camera sensor fusion: monocular distance estimation, bearing        *)
(* projection, cross-sensor association and the FusionStation ticks.       *)
(*                                                                         *)
(* Numbers.  Python floats are modelled in fixed point:                    *)
(*   Degrees  in 1/1000 degree,                                            *)
(*   Meters   in 1/100 m, tagged with a kind so that the IEEE values       *)
(*            inf, -inf and nan the code can produce are distinct values,  *)
(*   radians  in 1/100000 rad for tan, 1/10000 rad for sin and cos.        *)
(* Projected coordinates lie on the even 1/100 m grid, so that the         *)
(* division by 2.0 of the fusion step is exact, as it is for floats.       *)
(***************************************************************************)
EXTENDS Integers, Sequences, FiniteSets

\* sensor_array      the roster of the FusionStation (sensor ids)
\* gt_objects        the records of the ground truth, per sensor id
\* initial_objects   gt_objects as the station was constructed with them
\* last_call         the last call made on the station and what it did
\* prev_call         the call before it
\* held              the mapping the caller got from execute_without_fusion,
\*                   with the locations its records had when it was returned
VARIABLES sensor_array, gt_objects, initial_objects, last_call, prev_call, held

vars == <<sensor_array, gt_objects, initial_objects, last_call, prev_call, held>>

(***************************************************************************)
(* Bound of the model: the longest list of detections of a sensor.         *)
(***************************************************************************)
MaxDet == 3

(***************************************************************************)
(* Fixed-point scales.                                                     *)
(***************************************************************************)
TanScale == 10^5
TrigScale == 10^4

(***************************************************************************)
(* Tagged Meters values.                                                   *)
(***************************************************************************)
Fin(n) == [k |-> "fin", v |-> n]
Inf == [k |-> "inf", v |-> 0]
NegInf == [k |-> "ninf", v |-> 0]
NaN == [k |-> "nan", v |-> 0]

IsFin(a) == a.k = "fin"

Neg(a) ==
  CASE a.k = "fin" -> Fin(0 - a.v)
    [] a.k = "inf" -> NegInf
    [] a.k = "ninf" -> Inf
    [] OTHER -> NaN

Add(a, b) ==
  CASE a.k = "nan" \/ b.k = "nan" -> NaN
    [] a.k = "fin" /\ b.k = "fin" -> Fin(a.v + b.v)
    [] a.k = "fin" -> b
    [] b.k = "fin" -> a
    [] a.k = b.k -> a
    [] OTHER -> NaN

Sub(a, b) == Add(a, Neg(b))

Square(a) ==
  CASE a.k = "nan" -> NaN
    [] a.k = "fin" -> Fin(a.v * a.v)
    [] OTHER -> Inf

\* x / 2.0
Halve(a) == IF a.k = "fin" THEN Fin(a.v \div 2) ELSE a

\* a < b on floats: every comparison with nan is false
Less(a, b) ==
  CASE a.k = "nan" \/ b.k = "nan" -> FALSE
    [] a.k = "fin" /\ b.k = "fin" -> a.v < b.v
    [] a.k = "ninf" -> b.k # "ninf"
    [] a.k = "inf" -> FALSE
    [] OTHER -> b.k = "inf"

RECURSIVE SqrtSearch(_, _, _)
SqrtSearch(n, lo, hi) ==
  IF lo >= hi THEN lo
  ELSE LET mid == (lo + hi + 1) \div 2
       IN IF mid * mid <= n THEN SqrtSearch(n, mid, hi)
          ELSE SqrtSearch(n, lo, mid - 1)

\* floor of the square root, n < 2^31
ISqrt(n) == SqrtSearch(n, 0, 46340)

\* math.sqrt on a value that is a sum of squares
Sqrt(a) == IF a.k = "fin" THEN Fin(ISqrt(a.v)) ELSE a

(***************************************************************************)
(* np.deg2rad, np.tan, np.cos, np.sin                                      *)
(***************************************************************************)
\* millidegrees to 1/100000 rad
DegToRad(mdeg) == (mdeg * 17453) \div 10000

\* tan of x (1/100000 rad), |x| < 0.46 rad; Taylor series to x^7
Tan(x) ==
  LET x2 == (x * x) \div TanScale
      x3 == (x * x2) \div TanScale
      x5 == (x3 * x2) \div TanScale
      x7 == (x5 * x2) \div TanScale
  IN x + x3 \div 3 + (2 * x5) \div 15 + (17 * x7) \div 315

\* sin of x (1/10000 rad), |x| <= 1.4 rad; Taylor series to x^9
Sin(x) ==
  LET x2 == (x * x) \div TrigScale
      x3 == (x * x2) \div TrigScale
      x5 == (x3 * x2) \div TrigScale
      x7 == (x5 * x2) \div TrigScale
      x9 == (x7 * x2) \div TrigScale
  IN x - x3 \div 6 + x5 \div 120 - x7 \div 5040 + x9 \div 362880

\* cos of x (1/10000 rad), |x| <= 1.4 rad; Taylor series to x^8
Cos(x) ==
  LET x2 == (x * x) \div TrigScale
      x4 == (x2 * x2) \div TrigScale
      x6 == (x4 * x2) \div TrigScale
      x8 == (x6 * x2) \div TrigScale
  IN TrigScale - x2 \div 2 + x4 \div 24 - x6 \div 720 + x8 \div 40320

(***************************************************************************)
(* Program data: camera configuration, sensors, size priors, detections.   *)
(***************************************************************************)
\* CameraConfig(image_width=1920, image_height=1080, fov_horizontal=40.0, fov_vertical=22.5)
camera_cfg ==
  [image_width |-> 1920, image_height |-> 1080,
   fov_horizontal |-> 40000, fov_vertical |-> 22500]

SensorIds == {1, 2, 3}

\* sensor_1 and sensor_2 of the demonstration; sensor 3 is a third camera
\* of the same configuration, used for rosters of more than two sensors.
MockCamera(id) ==
  CASE id = 1 -> [sensor_id |-> 1, bearing |-> 26600,
                  location_north_east |-> [north |-> Fin(0), east |-> Fin(0)]]
    [] id = 2 -> [sensor_id |-> 2, bearing |-> 0,
                  location_north_east |-> [north |-> Fin(0), east |-> Fin(5000)]]
    [] OTHER -> [sensor_id |-> 3, bearing |-> 10000,
                  location_north_east |-> [north |-> Fin(0), east |-> Fin(2500)]]

\* MockCamera.next_tick: a fresh Frame of the configured size and field of view
next_tick(sensor) ==
  [image_width |-> camera_cfg.image_width,
   fov_horizontal |-> camera_cfg.fov_horizontal,
   fov_vertical |-> camera_cfg.fov_vertical]

\* OBJECT_PRIORS_WIDTH, in 1/100 m
OBJECT_PRIORS_WIDTH == [tank |-> 700, car |-> 350]

\* LocationNE.null()
NullLocation == [north |-> Fin(0), east |-> Fin(0)]

BoundingBox(x, y, w, h) == [x |-> x, y |-> y, width |-> w, height |-> h]

IdentifiedObject(c, bb) ==
  [class_name |-> c, bounding_box |-> bb,
   object_location_north_east |-> NullLocation]

\* ground_truth_objects of the demonstration
ReferenceObjects ==
  [id \in SensorIds |->
     CASE id = 1 -> << IdentifiedObject("tank", BoundingBox(880, 500, 180, 100)),
                       IdentifiedObject("car", BoundingBox(800, 500, 60, 100)) >>
       [] id = 2 -> << IdentifiedObject("car", BoundingBox(1200, 500, 70, 100)),
                       IdentifiedObject("tank", BoundingBox(860, 500, 180, 100)) >>
       [] OTHER -> << >>]

\* The detections a sensor's ground truth is drawn from: the reference
\* detections of the sensor, a detection of a class without a size prior
\* (sensor 1) and a detection of width zero on the boresight (sensor 2).
DetectionPool(id) ==
  CASE id = 1 -> { ReferenceObjects[1][1], ReferenceObjects[1][2],
                   IdentifiedObject("truck", BoundingBox(900, 500, 120, 100)) }
    [] id = 2 -> { ReferenceObjects[2][1], ReferenceObjects[2][2],
                   IdentifiedObject("car", BoundingBox(960, 500, 0, 100)) }
    [] OTHER -> { IdentifiedObject("tank", BoundingBox(900, 500, 180, 100)) }

SeqsUpTo(S, n) == UNION { [1..m -> S] : m \in 0..n }

\* The sensor rosters a FusionStation is constructed with.
Rosters == { <<1, 2>>, <<2, 1>>, <<1, 2, 3>>, <<1>>, <<2>> }

InRoster(roster, id) == \E i \in 1..Len(roster) : roster[i] = id

(***************************************************************************)
(* Monocular distance estimator                                            *)
(***************************************************************************)
\* The outcome of a call: err = "none" and a value, or the exception raised.
Ok(val) == [err |-> "none", val |-> val]
Raise(e) == [err |-> e, val |-> NaN]

\* numerator / denominator on floats, numerator > 0: x / 0.0 is inf
DivideByTan(num, t) ==
  IF t = 0 THEN Inf ELSE Fin((num * TanScale) \div (2 * t))

monocular_distance_from_object_prior(identified_object, frame) ==
  LET image_width == frame.image_width
      bbox_width_degree ==
        (identified_object.bounding_box.width * frame.fov_horizontal) \div image_width
      half_angle == DegToRad(bbox_width_degree) \div 2
  IN IF identified_object.class_name \notin DOMAIN OBJECT_PRIORS_WIDTH
     THEN Raise("KeyError")
     ELSE Ok(DivideByTan(OBJECT_PRIORS_WIDTH[identified_object.class_name],
                         Tan(half_angle)))

(***************************************************************************)
(* Bearing projector                                                       *)
(***************************************************************************)
\* distance * c / TrigScale, on the even grid; inf * 0.0 is nan
Scaled(distance, c) ==
  CASE distance.k = "fin" -> Fin(2 * ((distance.v * c) \div (2 * TrigScale)))
    [] distance.k = "nan" -> NaN
    [] c = 0 -> NaN
    [] c > 0 -> distance
    [] OTHER -> Neg(distance)

bearing_and_distance_to_north_east(sensor, frame, identified_object, object_distance_wrt_sensor) ==
  LET bb == identified_object.bounding_box
      \* twice the centre pixel, so that width / 2 is exact
      center2 == 2 * bb.x + bb.width
      delta_from_sensor_bearing ==
        (center2 * frame.fov_horizontal) \div (2 * frame.image_width)
          - frame.fov_horizontal \div 2
      combined_bearing == sensor.bearing + delta_from_sensor_bearing
      rad == DegToRad(combined_bearing) \div 10
      north_wrt_sensor == Scaled(object_distance_wrt_sensor, Cos(rad))
      east_wrt_sensor == Scaled(object_distance_wrt_sensor, Sin(rad))
  IN [north |-> Add(north_wrt_sensor, sensor.location_north_east.north),
      east |-> Add(east_wrt_sensor, sensor.location_north_east.east)]

(***************************************************************************)
(* MockObjectRecognition.identify_and_localise                             *)
(*                                                                         *)
(* The heap is gt_objects: the records of the ground truth.  A reference   *)
(* to a record is [sensor, index]; the lists the code returns hold         *)
(* references to the very records of the ground truth.                     *)
(***************************************************************************)
Ref(id, i) == [sensor |-> id, index |-> i]
Deref(heap, r) == heap[r.sensor][r.index]

SetLocation(heap, r, loc) ==
  [heap EXCEPT ![r.sensor][r.index].object_location_north_east = loc]

\* The assignment of the loop body, given the distance estimate d.
Relocated(heap, frame, sensor, r, d) ==
  IF d.err # "none" THEN [err |-> d.err, heap |-> heap]
  ELSE [err |-> "none",
        heap |-> SetLocation(heap, r,
                   bearing_and_distance_to_north_east(
                     sensor, frame, Deref(heap, r), d.val))]

\* A loop body that keeps the location of a record localised before.
LocaliseOne_cached(heap, frame, sensor, i) ==
  IF Deref(heap, Ref(sensor.sensor_id, i)).object_location_north_east # NullLocation
  THEN [err |-> "none", heap |-> heap]
  ELSE Relocated(heap, frame, sensor, Ref(sensor.sensor_id, i),
                 monocular_distance_from_object_prior(
                   Deref(heap, Ref(sensor.sensor_id, i)), frame))

\* One pass of the loop body for the record at index i.
LocaliseOne(heap, frame, sensor, i) ==
  Relocated(heap, frame, sensor, Ref(sensor.sensor_id, i),
            monocular_distance_from_object_prior(
              Deref(heap, Ref(sensor.sensor_id, i)), frame))

\* The loop over self._gt_objects.get(sensor.sensor_id), from index i on.
RECURSIVE LocaliseFrom(_, _, _, _)
RECURSIVE LocaliseAfter(_, _, _, _)
LocaliseFrom(heap, frame, sensor, i) ==
  IF i > Len(heap[sensor.sensor_id])
  THEN [err |-> "none", heap |-> heap]
  ELSE LocaliseAfter(LocaliseOne(heap, frame, sensor, i), frame, sensor, i)

LocaliseAfter(step, frame, sensor, i) ==
  IF step.err # "none" THEN step
  ELSE LocaliseFrom(step.heap, frame, sensor, i + 1)

Localised(run, sensor) ==
  [err |-> run.err, heap |-> run.heap,
   identified_objects |->
     IF run.err = "none"
     THEN [i \in 1..Len(run.heap[sensor.sensor_id]) |-> Ref(sensor.sensor_id, i)]
     ELSE << >>]

identify_and_localise(heap, frame, sensor) ==
  Localised(LocaliseFrom(heap, frame, sensor, 1), sensor)

(***************************************************************************)
(* FusionStation._next_tick                                                *)
(***************************************************************************)
\* dict(): the mapping is a function on the keys inserted so far
EmptyMapping == [id \in {} |-> << >>]

SetItem(mapping, key, value) ==
  [id \in DOMAIN mapping \cup {key} |-> IF id = key THEN value ELSE mapping[id]]

\* The loop over self._sensor_array, from its n-th sensor on.
RECURSIVE NextTickFrom(_, _, _, _)
RECURSIVE NextTickAfter(_, _, _, _)
NextTickFrom(roster, heap, mapping, n) ==
  IF n > Len(roster)
  THEN [err |-> "none", heap |-> heap, sensor_object_mapping |-> mapping]
  ELSE NextTickAfter(
         identify_and_localise(heap, next_tick(MockCamera(roster[n])),
                               MockCamera(roster[n])),
         roster, mapping, n)

\* A loop that drops a sensor whose recognition failed and goes on.
NextTickAfter_skip(res, roster, mapping, n) ==
  IF res.err # "none"
  THEN NextTickFrom(roster, res.heap, mapping, n + 1)
  ELSE NextTickFrom(roster, res.heap,
         SetItem(mapping, roster[n], res.identified_objects), n + 1)

NextTickAfter(res, roster, mapping, n) ==
  IF res.err # "none"
  THEN [err |-> res.err, heap |-> res.heap,
        sensor_object_mapping |-> EmptyMapping]
  ELSE NextTickFrom(roster, res.heap,
         SetItem(mapping, roster[n], res.identified_objects), n + 1)

FusionStation_next_tick(roster, heap) == NextTickFrom(roster, heap, EmptyMapping, 1)

(***************************************************************************)
(* Cross-sensor associator                                                 *)
(***************************************************************************)
distance_metric(object1, object2) ==
  Sqrt(Add(Square(Sub(object2.object_location_north_east.north,
                      object1.object_location_north_east.north)),
           Square(Sub(object2.object_location_north_east.east,
                      object1.object_location_north_east.east))))

\* np.zeros((2, 2)) filled by the two enumerate loops; rows and columns are
\* numbered from 1 here, from 0 in the code.
CostMatrix(heap, sensor_1_objects, sensor_2_objects) ==
  [row \in 1..2 |-> [col \in 1..2 |->
     IF row <= Len(sensor_1_objects) /\ col <= Len(sensor_2_objects)
     THEN distance_metric(Deref(heap, sensor_1_objects[row]),
                          Deref(heap, sensor_2_objects[col]))
     ELSE Fin(0)]]

\* cost_matrix[row_idx, col_idx] = ... outside the 2 x 2 array
FillOverflows(sensor_1_objects, sensor_2_objects) ==
  \/ Len(sensor_1_objects) > 2 /\ Len(sensor_2_objects) >= 1
  \/ Len(sensor_2_objects) > 2 /\ Len(sensor_1_objects) >= 1

\* A solver that pairs row i with column i whatever the costs.
linear_sum_assignment_diagonal(cost_matrix) ==
  IF \E row \in 1..2, col \in 1..2 :
       cost_matrix[row][col].k = "nan" \/ cost_matrix[row][col].k = "ninf"
  THEN [err |-> "ValueError", row_idx |-> << >>, col_idx |-> << >>]
  ELSE [err |-> "none", row_idx |-> <<1, 2>>, col_idx |-> <<1, 2>>]

\* A solver that keeps the assignment of the larger total cost.
linear_sum_assignment_maximal(cost_matrix) ==
  IF \E row \in 1..2, col \in 1..2 : cost_matrix[row][col].k # "fin"
  THEN [err |-> "ValueError", row_idx |-> << >>, col_idx |-> << >>]
  ELSE [err |-> "none", row_idx |-> <<1, 2>>,
        col_idx |->
          IF cost_matrix[1][1].v + cost_matrix[2][2].v
               >= cost_matrix[1][2].v + cost_matrix[2][1].v
          THEN <<1, 2>> ELSE <<2, 1>>]

\* scipy.optimize.linear_sum_assignment on a 2 x 2 matrix.  It rejects nan
\* and -inf entries and matrices without a finite assignment; among
\* assignments of equal total cost it keeps the column row 0 prefers.
Invalid(c) == c.k = "nan" \/ c.k = "ninf"

linear_sum_assignment(cost_matrix) ==
  LET a == cost_matrix[1][1]
      b == cost_matrix[1][2]
      c == cost_matrix[2][1]
      d == cost_matrix[2][2]
      identity == Add(a, d)
      swap == Add(b, c)
  IN IF \E row \in 1..2, col \in 1..2 : Invalid(cost_matrix[row][col])
     THEN [err |-> "ValueError", row_idx |-> << >>, col_idx |-> << >>]
     ELSE IF ~IsFin(identity) /\ ~IsFin(swap)
     THEN [err |-> "ValueError", row_idx |-> << >>, col_idx |-> << >>]
     ELSE [err |-> "none", row_idx |-> <<1, 2>>,
           col_idx |->
             IF ~Less(b, a)
             THEN (IF Less(swap, identity) THEN <<2, 1>> ELSE <<1, 2>>)
             ELSE (IF Less(identity, swap) THEN <<1, 2>> ELSE <<2, 1>>)]

\* The sum of the two locations, not divided by 2.0.
FusedLocation_sum(s1_object, s2_object) ==
  [north |-> Add(s1_object.object_location_north_east.north,
                 s2_object.object_location_north_east.north),
   east |-> Add(s1_object.object_location_north_east.east,
                s2_object.object_location_north_east.east)]

\* Re-calculate the fused location as the average from both perspectives
FusedLocation(s1_object, s2_object) ==
  [north |-> Halve(Add(s1_object.object_location_north_east.north,
                       s2_object.object_location_north_east.north)),
   east |-> Halve(Add(s1_object.object_location_north_east.east,
                      s2_object.object_location_north_east.east))]

\* The fused location written into the second sensor's record.
Relocate_s2(heap, r1, r2, fused_location) == SetLocation(heap, r2, fused_location)

\* The fused record put in front of the list.
Appended_front(fused_objects, r1, r2) == <<r1>> \o fused_objects

\* s1_object.object_location_north_east = fused_location
Relocate(heap, r1, r2, fused_location) == SetLocation(heap, r1, fused_location)

\* fused_objects.append(s1_object)
Appended(fused_objects, r1, r2) == Append(fused_objects, r1)

\* The loop over zip(row_idx, col_idx), from its k-th pair on.
RECURSIVE FuseFrom(_, _, _, _, _, _, _)
FuseFrom(heap, sensor_1_objects, sensor_2_objects, row_idx, col_idx, k, fused_objects) ==
  IF k > Len(row_idx)
  THEN [err |-> "none", heap |-> heap, fused_objects |-> fused_objects]
  ELSE IF row_idx[k] > Len(sensor_1_objects) \/ col_idx[k] > Len(sensor_2_objects)
  THEN [err |-> "IndexError", heap |-> heap, fused_objects |-> << >>]
  ELSE LET r1 == sensor_1_objects[row_idx[k]]
           r2 == sensor_2_objects[col_idx[k]]
           fused_location == FusedLocation(Deref(heap, r1), Deref(heap, r2))
       IN FuseFrom(Relocate(heap, r1, r2, fused_location),
                   sensor_1_objects, sensor_2_objects, row_idx, col_idx,
                   k + 1, Appended(fused_objects, r1, r2))

NoAssociation ==
  [called |-> FALSE, keys |-> {}, before |-> << >>, cost_matrix |-> << >>,
   row_idx |-> << >>, col_idx |-> << >>]

\* The call was entered with this heap and mapping and built no assignment.
Entered(heap, sensor_object_mapping) ==
  [NoAssociation EXCEPT !.called = TRUE, !.before = heap,
                        !.keys = DOMAIN sensor_object_mapping]

\* A check that the mapping holds the keys 1 and 2 and no other.
MissingKey_exact(sensor_object_mapping) == DOMAIN sensor_object_mapping # {1, 2}

\* sensor_object_mapping[1], sensor_object_mapping[2] raise KeyError
MissingKey(sensor_object_mapping) ==
  1 \notin DOMAIN sensor_object_mapping \/ 2 \notin DOMAIN sensor_object_mapping

\* What the call did, for the properties: the heap it was entered with,
\* the cost matrix it built and the assignment it solved.
Seen(heap, keys, cost_matrix, lsa) ==
  [called |-> TRUE, keys |-> keys, before |-> heap, cost_matrix |-> cost_matrix,
   row_idx |-> lsa.row_idx, col_idx |-> lsa.col_idx]

Fused(run, seen) ==
  [err |-> run.err, heap |-> run.heap,
   fused_objects |-> run.fused_objects, assoc |-> seen]

\* Lines 57-73: the fusion loop over the solved assignment.
FuseAssigned(heap, keys, sensor_1_objects, sensor_2_objects, cost_matrix, lsa) ==
  IF lsa.err # "none"
  THEN [err |-> lsa.err, heap |-> heap, fused_objects |-> << >>,
        assoc |-> Seen(heap, keys, cost_matrix, lsa)]
  ELSE Fused(FuseFrom(heap, sensor_1_objects, sensor_2_objects,
                      lsa.row_idx, lsa.col_idx, 1, << >>),
             Seen(heap, keys, cost_matrix, lsa))

\* Line 56: the bipartite matching of the cost matrix.
Assign(heap, keys, sensor_1_objects, sensor_2_objects, cost_matrix) ==
  FuseAssigned(heap, keys, sensor_1_objects, sensor_2_objects, cost_matrix,
               linear_sum_assignment(cost_matrix))

match_and_fuse_identified_objects(heap, sensor_object_mapping) ==
  IF MissingKey(sensor_object_mapping)
  THEN [err |-> "KeyError", heap |-> heap, fused_objects |-> << >>,
        assoc |-> Entered(heap, sensor_object_mapping)]
  ELSE IF FillOverflows(sensor_object_mapping[1], sensor_object_mapping[2])
  THEN [err |-> "IndexError", heap |-> heap, fused_objects |-> << >>,
        assoc |-> Entered(heap, sensor_object_mapping)]
  ELSE Assign(heap, DOMAIN sensor_object_mapping,
              sensor_object_mapping[1], sensor_object_mapping[2],
              CostMatrix(heap, sensor_object_mapping[1], sensor_object_mapping[2]))

(***************************************************************************)
(* FusionStation                                                           *)
(***************************************************************************)
\* What visualise_operational_picture reads of the records it is handed.
Picture(heap, objects) ==
  [i \in 1..Len(objects) |->
     [class_name |-> Deref(heap, objects[i]).class_name,
      location |-> Deref(heap, objects[i]).object_location_north_east]]

\* The values of sensor_object_mapping, flattened, in insertion order: the
\* keys were inserted in the order of the roster.
RECURSIVE Flatten(_, _, _)
Flatten(roster, mapping, n) ==
  IF n > Len(roster) THEN << >>
  ELSE (IF roster[n] \in DOMAIN mapping THEN mapping[roster[n]] ELSE << >>)
         \o Flatten(roster, mapping, n + 1)

Locations(heap, mapping) ==
  [id \in DOMAIN mapping |->
     [i \in 1..Len(mapping[id]) |->
        Deref(heap, mapping[id][i]).object_location_north_east]]

NotHeld == [valid |-> FALSE, mapping |-> EmptyMapping, locations |-> EmptyMapping]

Failed(op, e, assoc) ==
  [op |-> op, err |-> e, returned |-> "nothing",
   sensor_object_mapping |-> EmptyMapping, fused_objects |-> << >>,
   visualised |-> FALSE, shown |-> << >>, assoc |-> assoc]

\* What a call leaves behind: the heap and the record of the call.
Returned(op, heap, mapping, fused_objects, objects, assoc) ==
  [op |-> op, err |-> "none",
   returned |-> IF op = "execute_without_fusion" THEN "mapping" ELSE "None",
   sensor_object_mapping |-> mapping, fused_objects |-> fused_objects,
   visualised |-> TRUE, shown |-> Picture(heap, objects), assoc |-> assoc]

WithoutFusion(roster, t) ==
  IF t.err # "none"
  THEN [heap |-> t.heap,
        call |-> Failed("execute_without_fusion", t.err, NoAssociation)]
  ELSE [heap |-> t.heap,
        call |-> Returned("execute_without_fusion", t.heap,
                          t.sensor_object_mapping, << >>,
                          Flatten(roster, t.sensor_object_mapping, 1),
                          NoAssociation)]

Associated(t, f) ==
  IF f.err # "none"
  THEN [heap |-> f.heap, call |-> Failed("execute_with_fusion", f.err, f.assoc)]
  ELSE [heap |-> f.heap,
        call |-> Returned("execute_with_fusion", f.heap,
                          t.sensor_object_mapping, f.fused_objects,
                          f.fused_objects, f.assoc)]

WithFusion(t) ==
  IF t.err # "none"
  THEN [heap |-> t.heap,
        call |-> Failed("execute_with_fusion", t.err, NoAssociation)]
  ELSE Associated(t, match_and_fuse_identified_objects(
                       t.heap, t.sensor_object_mapping))

Holding(heap, call, before) ==
  IF call.returned = "mapping"
  THEN [valid |-> TRUE, mapping |-> call.sensor_object_mapping,
        locations |-> Locations(heap, call.sensor_object_mapping)]
  ELSE before

\* The call ends: the heap is as the call left it, and the caller holds
\* what the call returned.
Finish(out) ==
  /\ gt_objects' = out.heap
  /\ last_call' = out.call
  /\ held' = Holding(out.heap, out.call, held)

execute_without_fusion ==
  /\ Finish(WithoutFusion(sensor_array,
                          FusionStation_next_tick(sensor_array, gt_objects)))
  /\ prev_call' = [op |-> last_call.op, err |-> last_call.err]
  /\ UNCHANGED <<sensor_array, initial_objects>>

execute_with_fusion ==
  /\ Finish(WithFusion(FusionStation_next_tick(sensor_array, gt_objects)))
  /\ prev_call' = [op |-> last_call.op, err |-> last_call.err]
  /\ UNCHANGED <<sensor_array, initial_objects>>

\* The ground truth a MockObjectRecognition is constructed with: for each
\* sensor of the roster a list of at most MaxDet detections of its pool.
GroundTruths(roster) ==
  { [id \in SensorIds |-> CASE id = 1 -> g1 [] id = 2 -> g2 [] OTHER -> g3] :
      g1 \in (IF InRoster(roster, 1) THEN SeqsUpTo(DetectionPool(1), MaxDet) ELSE {<< >>}),
      g2 \in (IF InRoster(roster, 2) THEN SeqsUpTo(DetectionPool(2), MaxDet) ELSE {<< >>}),
      g3 \in (IF InRoster(roster, 3) THEN [1..1 -> DetectionPool(3)] ELSE {<< >>}) }

Init ==
  /\ sensor_array \in Rosters
  /\ gt_objects \in GroundTruths(sensor_array)
  /\ initial_objects = gt_objects
  /\ last_call = [op |-> "none", err |-> "none", returned |-> "nothing",
                  sensor_object_mapping |-> EmptyMapping, fused_objects |-> << >>,
                  visualised |-> FALSE, shown |-> << >>, assoc |-> NoAssociation]
  /\ prev_call = [op |-> "none", err |-> "none"]
  /\ held = NotHeld

Next == execute_without_fusion \/ execute_with_fusion

Spec == Init /\ [][Next]_vars

(***************************************************************************)
(* Properties                                                              *)
(***************************************************************************)
FusionReturned ==
  last_call.op = "execute_with_fusion" /\ last_call.err = "none"

\* The records of the k-th matched pair as they were when the associator
\* was called.
MatchedA(k) ==
  Deref(last_call.assoc.before,
        last_call.sensor_object_mapping[1][last_call.assoc.row_idx[k]])
MatchedB(k) ==
  Deref(last_call.assoc.before,
        last_call.sensor_object_mapping[2][last_call.assoc.col_idx[k]])

Solved == last_call.assoc.col_idx # << >>

Total(cost_matrix, cols) == Add(cost_matrix[1][cols[1]], cost_matrix[2][cols[2]])

FiniteLocation(o) ==
  IsFin(o.object_location_north_east.north) /\ IsFin(o.object_location_north_east.east)

\* c is the Euclidean distance of the two locations, to the grid
IsEuclidean(c, l1, l2) ==
  LET sq == (l2.north.v - l1.north.v) * (l2.north.v - l1.north.v)
            + (l2.east.v - l1.east.v) * (l2.east.v - l1.east.v)
  IN IsFin(c) /\ c.v >= 0 /\ c.v * c.v <= sq /\ sq < (c.v + 1) * (c.v + 1)

\* C1: the cost matrix holds the Euclidean distances of the two sensors'
\* localized detections, and the assignment the associator solves costs no
\* more in total than any other complete one-to-one assignment of rows to
\* columns.
C1_AssignmentOptimal ==
  Solved =>
    LET m == last_call.assoc.cost_matrix
        h == last_call.assoc.before
    IN /\ \A p \in {<<1, 2>>, <<2, 1>>} :
            ~Less(Total(m, p), Total(m, last_call.assoc.col_idx))
       /\ \A i \in 1..Len(h[1]), j \in 1..Len(h[2]) :
            (FiniteLocation(h[1][i]) /\ FiniteLocation(h[2][j]))
              => IsEuclidean(m[i][j], h[1][i].object_location_north_east,
                             h[2][j].object_location_north_east)

\* C1 witness: a fused tick whose two complete assignments differ in cost
\* and whose cheaper one pairs row 1 with column 2.
C1_Witness ==
  /\ FusionReturned
  /\ last_call.assoc.col_idx = <<2, 1>>
  /\ Less(Total(last_call.assoc.cost_matrix, <<2, 1>>),
          Total(last_call.assoc.cost_matrix, <<1, 2>>))

\* C2: the fused location of every matched pair is the component-wise mean
\* of the locations the two records had when the associator was called.
C2_FusedIsMean ==
  FusionReturned =>
    \A k \in 1..Len(last_call.fused_objects) :
      LET f == Deref(gt_objects, last_call.fused_objects[k]).object_location_north_east
          a == MatchedA(k).object_location_north_east
          b == MatchedB(k).object_location_north_east
      IN /\ IsFin(f.north) /\ IsFin(f.east)
         /\ IsFin(a.north) /\ IsFin(a.east) /\ IsFin(b.north) /\ IsFin(b.east)
         /\ 2 * f.north.v = a.north.v + b.north.v
         /\ 2 * f.east.v = a.east.v + b.east.v
         /\ last_call.shown[k].location = f

\* C2 witness: a fused tick with two pairs whose members lie apart.
C2_Witness ==
  /\ FusionReturned
  /\ Len(last_call.fused_objects) = 2
  /\ \A k \in 1..2 :
       MatchedA(k).object_location_north_east # MatchedB(k).object_location_north_east

ReferenceScenario ==
  sensor_array = <<1, 2>> /\ initial_objects = ReferenceObjects

\* C3: in the reference scenario a fused tick matches tank with tank and
\* car with car and yields exactly two fused detections.
C3_ReferenceMatch ==
  (ReferenceScenario /\ last_call.op = "execute_with_fusion") =>
    /\ last_call.err = "none"
    /\ Len(last_call.fused_objects) = 2
    /\ Len(last_call.shown) = 2
    /\ \A k \in 1..2 : MatchedA(k).class_name = MatchedB(k).class_name
    /\ MatchedA(1).class_name = "tank" /\ MatchedA(2).class_name = "car"

\* C3 witness: the reference scenario after a fused tick.
C3_Witness ==
  /\ ReferenceScenario
  /\ FusionReturned
  /\ last_call.shown[1].class_name = "tank"

\* C4: one fused detection per matched pair, in row order: the k-th fused
\* detection is the record of the k-th matched row of sensor 1's list.
C4_RowOrder ==
  FusionReturned =>
    LET rows == last_call.assoc.row_idx
        cols == last_call.assoc.col_idx
        fused == last_call.fused_objects
    IN /\ Len(fused) = Len(rows) /\ Len(rows) = Len(cols)
       /\ \A k \in 1..Len(fused) :
            /\ fused[k] = last_call.sensor_object_mapping[1][rows[k]]
            /\ last_call.shown[k].class_name = MatchedA(k).class_name
       /\ \A k \in 1..Len(rows), n \in 1..Len(rows) :
            k < n => (rows[k] < rows[n] /\ cols[k] # cols[n])

\* C4 witness: a fused tick of a roster listing sensor 2 first, whose
\* columns are assigned in reverse.
C4_Witness ==
  /\ FusionReturned
  /\ sensor_array = <<2, 1>>
  /\ last_call.assoc.col_idx = <<2, 1>>
  /\ Len(last_call.fused_objects) = 2

SameButLocation(o1, o2) ==
  o1.class_name = o2.class_name /\ o1.bounding_box = o2.bounding_box

\* C5: the associator changes nothing but the location of matched records
\* of sensor 1; a fused detection carries the class label and bounding box
\* of sensor 1's record, whatever the class of the record it was matched to.
C5_OnlyLocationOfA ==
  last_call.assoc.called =>
    LET h == last_call.assoc.before
    IN /\ DOMAIN gt_objects = DOMAIN h
       /\ \A id \in DOMAIN h :
            /\ Len(gt_objects[id]) = Len(h[id])
            /\ \A i \in 1..Len(h[id]) : SameButLocation(gt_objects[id][i], h[id][i])
            /\ id # 1 => gt_objects[id] = h[id]
       /\ \A i \in 1..Len(h[1]) :
            gt_objects[1][i] # h[1][i]
              => \E k \in 1..Len(last_call.assoc.row_idx) :
                   last_call.assoc.row_idx[k] = i
       /\ FusionReturned =>
            \A k \in 1..Len(last_call.fused_objects) :
              /\ last_call.shown[k].class_name = MatchedA(k).class_name
              /\ SameButLocation(Deref(gt_objects, last_call.fused_objects[k]),
                                 MatchedA(k))

\* C5 witness: a fused tick that matched records of different classes and
\* moved sensor 1's record.
C5_Witness ==
  /\ FusionReturned
  /\ \E k \in 1..Len(last_call.fused_objects) :
       /\ MatchedA(k).class_name # MatchedB(k).class_name
       /\ Deref(gt_objects, last_call.fused_objects[k]) # MatchedA(k)

\* The detections of the ground truth of the sensors of the roster.
RosterDetections ==
  UNION { { gt_objects[sensor_array[n]][i] :
              i \in 1..Len(gt_objects[sensor_array[n]]) } :
          n \in 1..Len(sensor_array) }

\* C6 as claimed: the associator fails whenever the keys of its mapping
\* are not exactly 1 and 2.
C6_FailsUnlessExactKeys ==
  (last_call.assoc.called /\ last_call.assoc.keys # {1, 2})
    => last_call.err # "none"

\* C6 amended: the associator fails with a key error whenever key 1 or key
\* 2 is missing; keys in addition to 1 and 2 are ignored, and a mapping
\* holding them with two localized detections under key 1 and under key 2
\* is fused.
C6_FailsIffKeyMissing ==
  last_call.assoc.called =>
    LET keys == last_call.assoc.keys
        h == last_call.assoc.before
    IN /\ ~({1, 2} \subseteq keys) =>
            /\ last_call.err = "KeyError"
            /\ last_call.returned = "nothing"
            /\ last_call.fused_objects = << >>
            /\ ~last_call.visualised
            /\ gt_objects = h
       /\ ({1, 2} \subseteq keys) => last_call.err # "KeyError"
       /\ ( /\ {1, 2} \subseteq keys
            /\ Len(h[1]) = 2 /\ Len(h[2]) = 2
            /\ \A id \in {1, 2}, i \in 1..2 : FiniteLocation(h[id][i]) )
            => (last_call.err = "none" /\ Len(last_call.fused_objects) = 2)

\* C6 witness: the associator called with a mapping that lacks key 1.
C6_Witness ==
  /\ last_call.assoc.called
  /\ last_call.assoc.keys = {2}
  /\ last_call.err = "KeyError"

ZeroWidth(o) == o.bounding_box.width = 0

\* C7 as claimed: a detection of width zero is never given a distance, and
\* a tick that contains one does not complete.
C7_ZeroWidthRaises ==
  \A n \in 1..Len(sensor_array) :
    \A i \in 1..Len(gt_objects[sensor_array[n]]) :
      ZeroWidth(gt_objects[sensor_array[n]][i]) =>
        /\ gt_objects[sensor_array[n]][i].object_location_north_east = NullLocation
        /\ last_call.op # "none" => last_call.err # "none"

NoSizePrior(o) == o.class_name \notin DOMAIN OBJECT_PRIORS_WIDTH

\* C8: a tick whose class-label lookup fails for a detection of a sensor of
\* the roster, or whose association lacks a sensor key, fails; a failed
\* tick shows no picture and returns neither a mapping nor a fused list:
\* the caller holds what it held before.
C8_FailedTickAborts ==
  [][ /\ (\E o \in RosterDetections : NoSizePrior(o)) => last_call'.err = "KeyError"
      /\ (last_call'.op = "execute_with_fusion" /\ last_call'.assoc.called
            /\ ~({1, 2} \subseteq last_call'.assoc.keys))
           => last_call'.err # "none"
      /\ last_call'.err # "none" =>
           /\ ~last_call'.visualised
           /\ last_call'.shown = << >>
           /\ last_call'.returned = "nothing"
           /\ last_call'.sensor_object_mapping = EmptyMapping
           /\ last_call'.fused_objects = << >>
           /\ held' = held ]_vars

\* C8 witness: a fused tick that failed in the class-label lookup, before
\* the association, after a tick that had failed too.
C8_Witness ==
  /\ last_call.op = "execute_with_fusion"
  /\ last_call.err = "KeyError"
  /\ ~last_call.assoc.called
  /\ (\E o \in RosterDetections : NoSizePrior(o))
  /\ prev_call.op = "execute_without_fusion"
  /\ prev_call.err = "KeyError"

\* The call op as the very first tick of the station.
FirstTick(op) ==
  IF op = "execute_without_fusion"
  THEN WithoutFusion(sensor_array,
                     FusionStation_next_tick(sensor_array, initial_objects))
  ELSE WithFusion(FusionStation_next_tick(sensor_array, initial_objects))

\* C9: a successful tick after earlier ticks shows the same picture, and
\* leaves the same locations in the records, as the same call made as the
\* first tick.
C9_NoCrossTickState ==
  (prev_call.op # "none" /\ last_call.err = "none") =>
    LET first == FirstTick(last_call.op)
    IN /\ last_call.shown = first.call.shown
       /\ last_call.sensor_object_mapping = first.call.sensor_object_mapping
       /\ Locations(gt_objects, last_call.sensor_object_mapping)
            = Locations(first.heap, last_call.sensor_object_mapping)

\* C9 witness: a second fused tick after a first fused tick that wrote
\* fused locations into sensor 1's records.
C9_Witness ==
  /\ prev_call = [op |-> "execute_with_fusion", err |-> "none"]
  /\ FusionReturned
  /\ \A k \in 1..Len(last_call.fused_objects) :
       Deref(gt_objects, last_call.fused_objects[k]) # MatchedA(k)

\* C10 as claimed: the locations of the records of the mapping returned by
\* execute_without_fusion stay as they were returned.
C10_ReturnedMappingUnchanged ==
  held.valid => Locations(gt_objects, held.mapping) = held.locations

\* The associator was called with a mapping that holds the lists of sensor
\* 1 and of sensor 2.
AssociatorCalled ==
  /\ last_call.op = "execute_with_fusion"
  /\ last_call.assoc.called
  /\ {1, 2} \subseteq last_call.assoc.keys

\* The length of the detection list the associator was handed for a
\* sensor: identify_and_localise returns one detection per record of the
\* sensor.
ListSize(id) == Len(last_call.assoc.before[id])

TwoEach == ListSize(1) = 2 /\ ListSize(2) = 2

\* The call returned nothing: no fused list, shorter or not, reached the
\* caller or the picture.
NothingReturned ==
  /\ last_call.returned = "nothing"
  /\ last_call.fused_objects = << >>
  /\ ~last_call.visualised

\* C11 as claimed: the associator returns a fused list only when both
\* lists have exactly two entries, the list it returns has two entries, and
\* for every other pair of list sizes it fails with an index error.
C11_IndexErrorUnlessTwoEach ==
  AssociatorCalled =>
    /\ last_call.err = "none" =>
          (TwoEach /\ Len(last_call.fused_objects) = 2)
    /\ ~TwoEach => (last_call.err = "IndexError" /\ NothingReturned)

====
